---- MODULE Spec2Model ----
(***************************************************************************)
(* Model of src/src/sdk-app.ts: the one-shot bridge script.  The module    *)
(* body (lines 11-52) runs at load, then bridge() (lines 103-158) runs as  *)
(* one async function.  Each action below is the code that runs between    *)
(* two awaits: JavaScript runs such a stretch atomically.  The chain RPC   *)
(* client and the Across client are external; their answers are inputs     *)
(* drawn from small sets.                                                  *)
(*                                                                         *)
(* Numbers larger than 2^31 (wei amounts) are kept as sequences of decimal *)
(* digits, most significant first, the way a bigint prints.                *)
(***************************************************************************)
EXTENDS Integers, Sequences, FiniteSets, TLC

VARIABLES
    env,          \* process.env: PRIVATE_KEY and PUBLIC_KEY
    pc,           \* where the run is: which await it is suspended at, or how it ended
    account,      \* const account (line 28), the signer bound to walletClient (line 44)
    thrown,       \* the error that ended the run, "none" while none was thrown
    balanceAddr,  \* the address passed to publicClient.getBalance (line 57)
    weiBalance,   \* const weiBalance (line 57)
    chains,       \* const chains (line 71)
    intent,       \* const intent (line 79), the argument of client.getQuote
    quote,        \* const quote (lines 90, 115)
    execParams,   \* the argument of client.executeQuote (lines 146-150)
    progress,     \* the parameter of the latest onProgressCallback invocation
    delivered,    \* how many progress notifications the observer has received
    bridgeResult, \* const bridgeResult (line 146)
    issued,       \* the network operations issued so far, in order
    outstanding,  \* the network operations issued and not yet settled
    settled,      \* how each settled operation ended, in the order they settled
    log           \* the console.log lines of preValidate, getQuote and bridge

vars == <<env, pc, account, thrown, balanceAddr, weiBalance, chains, intent, quote,
          execParams, progress, delivered, bridgeResult, issued, outstanding, settled, log>>

\* ------------------------------------------------------------------ bounds

\* Progress notifications executeQuote delivers in one run.
MaxProgress == 2
\* Entries of a supported-chains response.
MaxChains == 2

\* ------------------------------------------------------------- undefined

\* An unset environment variable.
Absent == "undefined"
\* undefined where an object is expected: the result of a find() that matched
\* nothing, a local not yet assigned.
Undefined == [undefined |-> TRUE]
\* A bigint or an array not yet assigned.
Unset == <<>>

\* ------------------------------------------------------ decimal digit strings

RECURSIVE Digits(_)
\* bigint.toString(): the decimal digits of n, no leading zero.
Digits(n) == IF n < 10 THEN <<n>> ELSE Digits(n \div 10) \o <<n % 10>>

RECURSIVE Zeros(_)
Zeros(k) == IF k <= 0 THEN <<>> ELSE <<0>> \o Zeros(k - 1)

\* String.padStart(w, "0")
PadStart(ds, w) == Zeros(w - Len(ds)) \o ds
\* String.padEnd(w, "0")
PadEnd(ds, w) == ds \o Zeros(w - Len(ds))

RECURSIVE StripLeadingZeros(_)
StripLeadingZeros(ds) ==
    IF Len(ds) > 1 /\ Head(ds) = 0 THEN StripLeadingZeros(Tail(ds)) ELSE ds

RECURSIVE StripTrailingZeros(_)
\* Keeps one digit after the point: "1.0", "0.01".
StripTrailingZeros(ds) ==
    IF Len(ds) > 1 /\ ds[Len(ds)] = 0
    THEN StripTrailingZeros(SubSeq(ds, 1, Len(ds) - 1))
    ELSE ds

RECURSIVE LexLess(_, _)
\* a < b for digit strings of one length.
LexLess(a, b) ==
    IF a = <<>> \/ b = <<>> THEN FALSE
    ELSE IF Head(a) # Head(b) THEN Head(a) < Head(b)
    ELSE LexLess(Tail(a), Tail(b))

\* The wei amount hi * 10^9 + lo as a bigint's digits.
Wei(hi, lo) == IF hi = 0 THEN Digits(lo) ELSE Digits(hi) \o PadStart(Digits(lo), 9)

\* Decimals of ether.
EtherDecimals == 18

\* ethers.formatEther(wei): the decimal string whole "." frac.
formatEther(wei) ==
    LET padded == PadStart(wei, EtherDecimals + 1)
        cut    == Len(padded) - EtherDecimals
    IN  [whole |-> SubSeq(padded, 1, cut),
         frac  |-> StripTrailingZeros(SubSeq(padded, cut + 1, Len(padded)))]

\* ethers.parseEther(str): the wei amount of a decimal string.
parseEther(str) == StripLeadingZeros(str.whole \o PadEnd(str.frac, EtherDecimals))

\* --------------------------------------------------- Number(ethBalance) < 0.01

\* The literal 0.01 of line 64 is the double 0.01000000000000000020816..., and the
\* double below it is 0.00999999999999999847344...  Number(str) rounds the decimal
\* string to the nearest double, so it yields a double below the literal exactly when
\* the decimal lies below the halfway point of the two,
\* 0.009999999999999999340805079128813304..., whose fraction digits these are
\* (cut after 27; the digits after them are not all zero).
HalfwayBelowMinimum ==
    <<0,0,9,9,9,9,9,9,9, 9,9,9,9,9,9,9,9,9, 3,4,0,8,0,5,0,7,9>>

\* The same comparison against a literal of 0.001 (a minimum ten times smaller).
NumberLessThanMinimum_milli(str) ==
    /\ \A i \in 1..Len(str.whole) : str.whole[i] = 0
    /\ LexLess(PadEnd(str.frac, EtherDecimals), PadEnd(<<0,0,1>>, EtherDecimals))

\* The comparison written <= instead of <.
NumberLessThanMinimum_orEqual(str) ==
    /\ \A i \in 1..Len(str.whole) : str.whole[i] = 0
    /\ \/ ~LexLess(HalfwayBelowMinimum, PadEnd(str.frac, Len(HalfwayBelowMinimum)))
       \/ str.frac = <<0, 1>>

\* Number(str) < 0.01 for a decimal string of formatEther.
NumberLessThanMinimum(str) ==
    /\ \A i \in 1..Len(str.whole) : str.whole[i] = 0
    /\ ~LexLess(HalfwayBelowMinimum, PadEnd(str.frac, Len(HalfwayBelowMinimum)))

\* if (Number(ethBalance) < 0.01), line 64, on ethBalance = formatEther(weiBalance).
BelowMinimum(wei) == NumberLessThanMinimum(formatEther(wei))

\* ------------------------------------------------------------ environment

\* Private keys the environment may hold, and the address viem derives from each.
PrivateKeys == {"key1", "key2"}
Addresses == {"0xA1", "0xB2"}

\* A derivation that accepts any string.
IsPrivateKey_any(pk) == TRUE

\* privateKeyToAccount(`0x${pk}`), line 28: "0xundefined" is no private key and the
\* derivation throws.
IsPrivateKey(pk) == pk \in PrivateKeys

\* The account of a private key.
privateKeyToAccount(pk) ==
    CASE pk = "key1" -> [address |-> "0xA1"]
      [] pk = "key2" -> [address |-> "0xB2"]
      [] OTHER       -> [address |-> "0x00"]

\* getPubKey(), lines 33-35.
getPubKey(e) == e.PUBLIC_KEY

\* getPK(), lines 30-32.
getPK(acc) == acc.address

\* sepolia.id and arbitrumSepolia.id (viem/chains), lines 16-17.
originChainId == 11155111
destinationChainId == 421614
\* Another chain the bridging service lists (baseSepolia.id).
otherChainId == 84532

originTokenSymbol == "ETH"
destTokenSymbol == "WETH"

\* ------------------------------------------------- supported-chains responses

Token(sym, addr) == [symbol |-> sym, address |-> addr]

\* inputTokens lists a chain entry may carry: none, one symbol, both, a repeated one.
TokenLists ==
    { <<>>,
      <<Token("ETH", "0xE0")>>,
      <<Token("WETH", "0xC1")>>,
      <<Token("WETH", "0xC2")>>,
      <<Token("WETH", "0xC1"), Token("ETH", "0xE0")>>,
      <<Token("ETH", "0xE0"), Token("ETH", "0xE9")>> }

AcrossChains ==
    { [chainId |-> c, inputTokens |-> t] :
        c \in {originChainId, destinationChainId, otherChainId}, t \in TokenLists }

\* ChainsQueryResponse: the lists of at most MaxChains chain entries.
ChainsResponses == UNION { [1..n -> AcrossChains] : n \in 0..MaxChains }

\* Array.prototype.find: the element at the first index in hits, undefined if hits
\* is empty.
First(arr, hits) ==
    IF hits = {}
    THEN Undefined
    ELSE arr[CHOOSE i \in hits : \A j \in hits : i <= j]

\* chains.find((x) => x.chainId == id), lines 73 and 76.
FindChain(arr, id) == First(arr, { i \in 1..Len(arr) : arr[i].chainId = id })

\* inputTokens.find(x => x.symbol == sym), lines 74 and 77.
FindToken(arr, sym) == First(arr, { i \in 1..Len(arr) : arr[i].symbol = sym })

\* Reading a property of undefined throws a TypeError.
Readable(obj) == "undefined" \notin DOMAIN obj

\* Lines 73-74.
originAcrossChain(cs) == FindChain(cs, originChainId)
originTokenInfo(cs) == FindToken(originAcrossChain(cs).inputTokens, originTokenSymbol)

\* The destination chain looked up by the origin chain's id.
destinationAcrossChain_origin(cs) == FindChain(cs, originChainId)

\* Lines 76-77.
destinationAcrossChain(cs) == FindChain(cs, destinationChainId)
destinationTokenInfo(cs) == FindToken(destinationAcrossChain(cs).inputTokens, destTokenSymbol)

\* Lines 73-84 run to the end without reading a property of undefined.
LookupsSucceed(cs) ==
    /\ Readable(originAcrossChain(cs))
    /\ Readable(originTokenInfo(cs))
    /\ Readable(destinationAcrossChain(cs))
    /\ Readable(destinationTokenInfo(cs))

\* The decimal string "0.0002" of line 86.
InputAmountEther == [whole |-> <<0>>, frac |-> <<0, 0, 0, 2>>]

\* const intent, lines 79-87.
Intent(cs) ==
    [route |-> [originChainId      |-> originChainId,
                destinationChainId |-> destinationChainId,
                inputToken         |-> originTokenInfo(cs).address,
                outputToken        |-> destinationTokenInfo(cs).address],
     inputAmount |-> parseEther(InputAmountEther)]

\* ----------------------------------------------------------------- quotes

\* Output amounts and fees a quote may carry (wei), and its estimated fill time.
Deposits ==
    { [inputAmount |-> parseEther(InputAmountEther), outputAmount |-> Wei(o, 0)] :
        o \in {150000, 199000} }

Quotes ==
    { [deposit |-> d, totalRelayFee |-> Wei(1000, 0), estimatedFillTimeSec |-> t] :
        d \in Deposits, t \in {0, 3} }

\* quote.estimatedFillTimeSec || 'N/A', line 97.
EstimatedTime(q) == IF q.estimatedFillTimeSec = 0 THEN "N/A" ELSE q.estimatedFillTimeSec

\* The deposit executed with its input amount rebuilt from the output amount.
ExecuteQuoteParams_rebuilt(q, wallet) ==
    [walletClient |-> wallet,
     deposit      |-> [q.deposit EXCEPT !.inputAmount = q.deposit.outputAmount]]

\* The argument of client.executeQuote, lines 146-150 (onProgress is the observer
\* below).
ExecuteQuoteParams(q, wallet) == [walletClient |-> wallet, deposit |-> q.deposit]

\* ------------------------------------------------------ progress observer

Steps == {"approve", "deposit", "fill", "swap"}
Statuses == {"txSuccess", "txPending", "txError"}

\* ExecutionProgress values: the step, its status, and the payload of the step.
ProgressEvents ==
    { [step |-> st, status |-> s, txReceipt |-> "receipt", depositId |-> "id7",
       fillTxTimestamp |-> "t9"] : st \in Steps, s \in Statuses }

Line(msg, arg) == [msg |-> msg, arg |-> arg]

\* The switch of lines 123-142.
StepLog(p) ==
    CASE p.step = "approve" -> <<Line("Approval receipt received: ", p.txReceipt)>>
      [] p.step = "deposit" -> <<Line("Deposit Id received receipt: ", p.depositId)>>
      [] p.step = "fill"    -> <<Line("Order successfully filled at: ", p.fillTxTimestamp)>>
      [] OTHER              -> <<Line("Unknown step: ", p.step)>>

FailedLine(p) == Line("Step failed with status: ", <<p.step, p.status>>)

\* The observer without the return of line 120.
onProgressCallback_fallthrough(p) ==
    IF p.status # "txSuccess" THEN <<FailedLine(p)>> \o StepLog(p) ELSE StepLog(p)

\* onProgressCallback, lines 117-143: the lines it logs.
onProgressCallback(p) ==
    IF p.status # "txSuccess" THEN <<FailedLine(p)>> ELSE StepLog(p)

\* ExecuteQuoteResponseParams: error?: Error beside the deposit and fill details.
BridgeResults ==
    { [depositId |-> "id7"], [error |-> "Error"], [error |-> "Error", depositId |-> "id7"] }

\* if (bridgeResult.error), line 152.
HasError(r) == "error" \in DOMAIN r /\ r.error # Absent

\* Lines 152-156 with the else dropped.
TerminalLog_noElse(r) ==
    IF HasError(r)
    THEN <<Line("Bridge failed with error: ", r.error), Line("result", r)>>
    ELSE <<Line("result", r)>>

\* Lines 152-156.
TerminalLog(r) ==
    IF HasError(r)
    THEN <<Line("Bridge failed with error: ", r.error)>>
    ELSE <<Line("result", r)>>

\* ------------------------------------------------------------ the run

\* Balances the origin chain may report: hi * 10^9 + lo wei, around the minimum of
\* 10^16 wei (hi = 10^7) and away from it.
Balances ==
    { Wei(hi, lo) : hi \in {0, 5000000, 9999999, 10000000, 1000000000},
                    lo \in {0, 1, 999999999} }

\* createWalletClient, lines 43-47.
walletClient(acc) == [account |-> acc, chain |-> originChainId]

Init ==
    /\ env \in [PRIVATE_KEY : PrivateKeys \cup {Absent}, PUBLIC_KEY : Addresses \cup {Absent}]
    /\ pc = "load"
    /\ account = Undefined
    /\ thrown = "none"
    /\ balanceAddr = Absent
    /\ weiBalance = Unset
    /\ chains = Unset
    /\ intent = Undefined
    /\ quote = Undefined
    /\ execParams = Undefined
    /\ progress = Undefined
    /\ delivered = 0
    /\ bridgeResult = Undefined
    /\ issued = <<>>
    /\ outstanding = {}
    /\ settled = <<>>
    /\ log = <<>>

Outcome(op, how) == [op |-> op, outcome |-> how]

\* await: the operation is issued and the run is suspended on it.
Issue(op) ==
    /\ issued' = Append(issued, op)
    /\ outstanding' = outstanding \cup {op}
    /\ UNCHANGED settled

\* The awaited operation settled (resolved or rejected) and nothing is issued.
Settle(op, how) ==
    /\ outstanding' = outstanding \ {op}
    /\ settled' = Append(settled, Outcome(op, how))
    /\ UNCHANGED issued

\* The awaited operation settled and the run goes on to await the next one.
SettleAndIssue(op, how, next) ==
    /\ issued' = Append(issued, next)
    /\ outstanding' = (outstanding \ {op}) \cup {next}
    /\ settled' = Append(settled, Outcome(op, how))

\* The module body, lines 11-52: the account is derived from PRIVATE_KEY (line 28);
\* a throw there ends the process before line 160 is reached.
Load ==
    /\ pc = "load"
    /\ IF IsPrivateKey(env.PRIVATE_KEY)
       THEN /\ account' = privateKeyToAccount(env.PRIVATE_KEY)
            /\ pc' = "bridge"
            /\ UNCHANGED thrown
       ELSE /\ thrown' = "InvalidPrivateKeyError"
            /\ pc' = "crashed"
            /\ UNCHANGED account
    /\ UNCHANGED <<env, balanceAddr, weiBalance, chains, intent, quote, execParams,
                   progress, delivered, bridgeResult, issued, outstanding, settled, log>>

\* bridge() is called (line 160) and runs to its first await: preValidate, lines
\* 105 and 55-57.
CallBridge ==
    /\ pc = "bridge"
    /\ log' = Append(log, Line("Validating balance of wallet with pub key: ", getPubKey(env)))
    /\ balanceAddr' = getPubKey(env)
    /\ Issue("getBalance")
    /\ pc' = "awaitBalance"
    /\ UNCHANGED <<env, account, thrown, weiBalance, chains, intent, quote, execParams,
                   progress, delivered, bridgeResult>>

\* The balance read resolves: lines 57-67, then lines 108-115 and 71 up to the
\* next await.  The node answers only for an address.
GetBalanceResolve ==
    /\ pc = "awaitBalance"
    /\ balanceAddr # Absent
    /\ \E b \in Balances :
        /\ weiBalance' = b
        /\ IF BelowMinimum(b)
           THEN /\ log' = log \o <<Line("wei balance: ", b),
                                   Line("Balance in ETH:", formatEther(b)),
                                   Line("Insufficient funds... Exiting early", Absent)>>
                /\ thrown' = "InsufficientFundsError"
                /\ pc' = "rejected"
                /\ Settle("getBalance", "resolved")
           ELSE /\ log' = log \o <<Line("wei balance: ", b),
                                   Line("Balance in ETH:", formatEther(b))>>
                /\ SettleAndIssue("getBalance", "resolved", "getSupportedChains")
                /\ pc' = "awaitChains"
                /\ UNCHANGED thrown
    /\ UNCHANGED <<env, account, balanceAddr, chains, intent, quote, execParams,
                   progress, delivered, bridgeResult>>

\* A rejected await swallowed: the run goes on to fetch the supported chains.
GetBalanceReject_swallowed ==
    /\ pc = "awaitBalance"
    /\ SettleAndIssue("getBalance", "rejected", "getSupportedChains")
    /\ pc' = "awaitChains"
    /\ UNCHANGED <<env, account, thrown, balanceAddr, weiBalance, chains, intent, quote,
                   execParams, progress, delivered, bridgeResult, log>>

\* The balance read rejects (line 57): the error leaves preValidate and bridge.
GetBalanceReject ==
    /\ pc = "awaitBalance"
    /\ thrown' = "RpcError"
    /\ pc' = "rejected"
    /\ Settle("getBalance", "rejected")
    /\ UNCHANGED <<env, account, balanceAddr, weiBalance, chains, intent, quote,
                   execParams, progress, delivered, bridgeResult, log>>

\* The supported-chains fetch resolves: lines 71-90 up to the await of the quote.
GetSupportedChainsResolve ==
    /\ pc = "awaitChains"
    /\ \E cs \in ChainsResponses :
        /\ chains' = cs
        /\ IF LookupsSucceed(cs)
           THEN /\ intent' = Intent(cs)
                /\ log' = Append(log, Line("Requesting quote from Across...", Absent))
                /\ SettleAndIssue("getSupportedChains", "resolved", "getQuote")
                /\ pc' = "awaitQuote"
                /\ UNCHANGED thrown
           ELSE /\ thrown' = "TypeError"
                /\ pc' = "rejected"
                /\ Settle("getSupportedChains", "resolved")
                /\ UNCHANGED <<intent, log>>
    /\ UNCHANGED <<env, account, balanceAddr, weiBalance, quote, execParams, progress,
                   delivered, bridgeResult>>

\* The supported-chains fetch rejects (line 71).
GetSupportedChainsReject ==
    /\ pc = "awaitChains"
    /\ thrown' = "RpcError"
    /\ pc' = "rejected"
    /\ Settle("getSupportedChains", "rejected")
    /\ UNCHANGED <<env, account, balanceAddr, weiBalance, chains, intent, quote,
                   execParams, progress, delivered, bridgeResult, log>>

\* The quote request resolves: lines 90-99, getQuote returns (its locals chains and
\* intent go out of scope), then lines 115-150 up to the await of executeQuote.
GetQuoteResolve ==
    /\ pc = "awaitQuote"
    /\ \E q \in Quotes :
        /\ quote' = q
        /\ log' = log \o <<Line("=== Quote Received ===", Absent),
                           Line("You send: ", formatEther(q.deposit.inputAmount)),
                           Line("You receive: ", formatEther(q.deposit.outputAmount)),
                           Line("Bridge fee: ", formatEther(q.totalRelayFee)),
                           Line("Estimated time: ", EstimatedTime(q))>>
        /\ execParams' = ExecuteQuoteParams(q, walletClient(account))
    /\ chains' = Unset
    /\ intent' = Undefined
    /\ SettleAndIssue("getQuote", "resolved", "executeQuote")
    /\ pc' = "awaitExecute"
    /\ UNCHANGED <<env, account, thrown, balanceAddr, weiBalance, progress, delivered,
                   bridgeResult>>

\* The quote request rejects (line 90).
GetQuoteReject ==
    /\ pc = "awaitQuote"
    /\ thrown' = "QuoteRequestFailed"
    /\ pc' = "rejected"
    /\ Settle("getQuote", "rejected")
    /\ UNCHANGED <<env, account, balanceAddr, weiBalance, chains, intent, quote,
                   execParams, progress, delivered, bridgeResult, log>>

\* executeQuote invokes the observer (lines 117-143) while bridge awaits it.
OnProgress ==
    /\ pc = "awaitExecute"
    /\ delivered < MaxProgress
    /\ \E p \in ProgressEvents :
        /\ progress' = p
        /\ log' = log \o onProgressCallback(p)
    /\ delivered' = delivered + 1
    /\ UNCHANGED <<env, pc, account, thrown, balanceAddr, weiBalance, chains, intent,
                   quote, execParams, bridgeResult, issued, outstanding, settled>>

\* executeQuote resolves: lines 146-156, and bridge returns.
ExecuteQuoteResolve ==
    /\ pc = "awaitExecute"
    /\ \E r \in BridgeResults :
        /\ bridgeResult' = r
        /\ log' = log \o TerminalLog(r)
    /\ Settle("executeQuote", "resolved")
    /\ pc' = "done"
    /\ UNCHANGED <<env, account, thrown, balanceAddr, weiBalance, chains, intent, quote,
                   execParams, progress, delivered>>

\* executeQuote rejects (line 146).
ExecuteQuoteReject ==
    /\ pc = "awaitExecute"
    /\ thrown' = "ExecuteError"
    /\ pc' = "rejected"
    /\ Settle("executeQuote", "rejected")
    /\ UNCHANGED <<env, account, balanceAddr, weiBalance, chains, intent, quote,
                   execParams, progress, delivered, bridgeResult, log>>

Next ==
    \/ Load
    \/ CallBridge
    \/ GetBalanceResolve
    \/ GetBalanceReject
    \/ GetSupportedChainsResolve
    \/ GetSupportedChainsReject
    \/ GetQuoteResolve
    \/ GetQuoteReject
    \/ OnProgress
    \/ ExecuteQuoteResolve
    \/ ExecuteQuoteReject

Spec == Init /\ [][Next]_vars

\* ================================================================ claims

\* a < b for bigint digit strings.
WeiLess(a, b) == Len(a) < Len(b) \/ (Len(a) = Len(b) /\ LexLess(a, b))

\* 0.01 ETH = 10^16 wei.
MinimumWei == Wei(10000000, 0)

\* How many times a network operation was issued.
TimesIssued(op) == Cardinality({ i \in 1..Len(issued) : issued[i] = op })

\* How many lines of the log carry the message.
LinesLogged(msg) == Cardinality({ i \in 1..Len(log) : log[i].msg = msg })

Resolved(op) == \E i \in 1..Len(settled) : settled[i] = Outcome(op, "resolved")

BalanceRead == weiBalance # Unset

\* C1: whenever the balance read returned a balance strictly below 10^16 wei, the
\* run has ended with InsufficientFunds and the only network operation it ever
\* issued is the balance read: no supported-chains fetch, no quote request, no
\* executeQuote.
C1_BelowMinimumAborts ==
    (BalanceRead /\ WeiLess(weiBalance, MinimumWei)) =>
        /\ thrown = "InsufficientFundsError"
        /\ pc = "rejected"
        /\ issued = <<"getBalance">>
        /\ outstanding = {}

\* C1 witness: the largest balance below the minimum, 10^16 - 1 wei, was read and
\* the run was rejected for it.
C1_Witness ==
    /\ weiBalance = Wei(9999999, 999999999)
    /\ thrown = "InsufficientFundsError"

\* C2: whenever the balance read returned a balance of at least 10^16 wei (the
\* minimum itself included), InsufficientFunds was not raised and getQuote was
\* entered: the supported-chains fetch, its first statement, is the second
\* operation issued.
C2_AtOrAboveMinimumProceeds ==
    (BalanceRead /\ ~WeiLess(weiBalance, MinimumWei)) =>
        /\ thrown # "InsufficientFundsError"
        /\ Len(issued) >= 2
        /\ issued[2] = "getSupportedChains"

\* C2 witness: exactly 10^16 wei was read and the run awaits the supported chains.
C2_Witness ==
    /\ weiBalance = MinimumWei
    /\ pc = "awaitChains"

\* The response has an entry of chain c that lists a token of symbol sym.
Lists(cs, c, sym) ==
    \E i \in 1..Len(cs) :
        /\ cs[i].chainId = c
        /\ \E j \in 1..Len(cs[i].inputTokens) : cs[i].inputTokens[j].symbol = sym

\* The response has an entry of chain c that lists a token of symbol sym at addr.
ListsAt(cs, c, sym, addr) ==
    \E i \in 1..Len(cs) :
        /\ cs[i].chainId = c
        /\ \E j \in 1..Len(cs[i].inputTokens) :
             cs[i].inputTokens[j] = Token(sym, addr)

\* C3: when the supported-chains response lacks the origin chain or its origin
\* symbol, or the destination chain or its destination symbol, getQuote fails with
\* ChainNotFound or TokenNotFound and no quote request is issued.
C3_LookupMissIsNamedError ==
    (/\ Resolved("getSupportedChains")
     /\ pc # "awaitExecute" /\ pc # "done"
     /\ \/ ~Lists(chains, originChainId, originTokenSymbol)
        \/ ~Lists(chains, destinationChainId, destTokenSymbol)) =>
        /\ thrown \in {"ChainNotFound", "TokenNotFound"}
        /\ TimesIssued("getQuote") = 0

\* C4: whenever a quote request is outstanding, its route carries the configured
\* chain ids, an input token address the response lists for the origin symbol on
\* the origin chain, an output token address the response lists for the
\* destination symbol on the destination chain, and the amount 0.0002 ETH =
\* 2 * 10^14 wei.
C4_RouteUsesResolvedAddresses ==
    pc = "awaitQuote" =>
        /\ intent.route.originChainId = originChainId
        /\ intent.route.destinationChainId = destinationChainId
        /\ ListsAt(chains, originChainId, originTokenSymbol, intent.route.inputToken)
        /\ ListsAt(chains, destinationChainId, destTokenSymbol, intent.route.outputToken)
        /\ intent.inputAmount = Wei(200000, 0)

\* C4 witness: a quote request is outstanding for a response in which the origin
\* chain lists WETH too, at another address than the destination chain does.
C4_Witness ==
    /\ pc = "awaitQuote"
    /\ ListsAt(chains, originChainId, destTokenSymbol, "0xC1")
    /\ intent.route.inputToken = "0xE0"
    /\ intent.route.outputToken = "0xC2"

\* C5: a progress notification whose status is not txSuccess adds exactly one line
\* to the log, the failure line for its step and status, whatever the step: no
\* receipt, deposit id, fill timestamp or unknown-step line.
C5_NonSuccessOnlyLogsFailure ==
    [][(delivered' = delivered + 1 /\ progress'.status # "txSuccess") =>
          /\ Len(log') = Len(log) + 1
          /\ SubSeq(log', 1, Len(log)) = log
          /\ log'[Len(log')].msg = "Step failed with status: "
          /\ log'[Len(log')].arg = <<progress'.step, progress'.status>>]_vars

\* C5 witness: the observer has received a failed fill and the last line logged is
\* its failure line.
C5_Witness ==
    /\ delivered >= 1
    /\ progress.step = "fill"
    /\ progress.status = "txError"
    /\ log[Len(log)].msg = "Step failed with status: "

FailureLines == LinesLogged("Bridge failed with error: ")
SuccessLines == LinesLogged("result")

C7_QuoteExecutedOnceVerbatim ==
    /\ TimesIssued("executeQuote") <= 1
    /\ TimesIssued("getQuote") <= 1
    /\ TimesIssued("executeQuote") = 1 =>
          /\ Resolved("getQuote")
          /\ "deposit" \in DOMAIN quote
          /\ execParams.deposit = quote.deposit

\* C7 witness: a run in which a phase failed and the terminal result carries an
\* error.
C7_Witness ==
    /\ pc = "done"
    /\ "error" \in DOMAIN bridgeResult
    /\ delivered >= 1
    /\ progress.status = "txError"

\* C8: with PRIVATE_KEY absent from the environment, once the module body has run
\* the process has ended with an error at startup and no network operation was
\* ever issued: no balance read, supported-chains fetch, quote request or
\* executeQuote.
C8_MissingKeyIsFatal ==
    (env.PRIVATE_KEY = Absent /\ pc # "load") =>
        /\ pc = "crashed"
        /\ thrown # "none"
        /\ issued = <<>>
        /\ outstanding = {}

\* C8 witness: the process crashed at startup for the absent key.
C8_Witness ==
    /\ env.PRIVATE_KEY = Absent
    /\ pc = "crashed"

\* The fixed order of the network operations.
OperationOrder == <<"getBalance", "getSupportedChains", "getQuote", "executeQuote">>

\* C9: at most one network operation is outstanding; the operations issued are a
\* prefix of balance read, supported-chains fetch, quote request, executeQuote;
\* each but the first was issued after the one before it resolved; after a
\* rejected operation nothing further is issued.
C9_OneAtATimeInOrder ==
    /\ Cardinality(outstanding) <= 1
    /\ Len(issued) <= Len(OperationOrder)
    /\ issued = SubSeq(OperationOrder, 1, Len(issued))
    /\ Len(settled) \in {Len(issued) - 1, Len(issued)}
    /\ \A i \in 1..Len(settled) : settled[i].op = issued[i]
    /\ \A i \in 1..Len(settled) :
          settled[i].outcome = "rejected" => Len(issued) = i
    /\ outstanding = { issued[i] : i \in (Len(settled) + 1)..Len(issued) }

\* C9 witness: the quote request was rejected after the two operations before it
\* resolved, and nothing was issued after it.
C9_Witness ==
    /\ Len(settled) = 3
    /\ settled[3] = Outcome("getQuote", "rejected")
    /\ pc = "rejected"

\* C10: the address whose balance is read is the address of the account that
\* signs, for every environment.
C10_BalanceOfSigner ==
    Len(issued) >= 1 => balanceAddr = walletClient(account).account.address

====
